---- MODULE Spec2Model ----
(***************************************************************************)
(* Model of src/src/App.tsx, the single React component of "What's for     *)
(* Dinner?": the component state (useState hooks and the file-input ref),   *)
(* the event handlers handleImageChange, removeImage and handleSubmit, the  *)
(* FileReader callbacks and the pending generateContent promises.           *)
(*                                                                         *)
(* JavaScript strings are sequences of tokens (a token is a run of         *)
(* characters that the code never looks inside; " " and "," are tokens of   *)
(* their own because trim() and split(',') look for them).  Nullable        *)
(* values are tagged records.                                               *)
(***************************************************************************)
EXTENDS Integers, Sequences, FiniteSets, TLC

(* ------------------------------ bounds -------------------------------- *)

\* submissions accepted by handleSubmit in one run
MaxSubmits == 2
\* FileReaders that may be reading at the same time
MaxReaders == 2

(* --------------------------- JavaScript values ------------------------ *)

Null == [tag |-> "null"]
Undefined == [tag |-> "undefined"]
Str(s) == [tag |-> "string", chars |-> s]

\* JavaScript truthiness of a string | null | undefined value
Truthy(v) == v.tag = "string" /\ v.chars # <<>>

Whitespace == {" ", "\n"}

RECURSIVE trimStart(_)
trimStart(s) ==
    IF s # <<>> /\ Head(s) \in Whitespace THEN trimStart(Tail(s)) ELSE s

RECURSIVE trimEnd(_)
trimEnd(s) ==
    IF s # <<>> /\ s[Len(s)] \in Whitespace
    THEN trimEnd(SubSeq(s, 1, Len(s) - 1))
    ELSE s

\* String.prototype.trim
trim(s) == trimEnd(trimStart(s))

\* String.prototype.split(sep): the pieces of s between the sep tokens
RECURSIVE split(_, _)
split(s, sep) ==
    IF \E i \in 1..Len(s) : s[i] = sep
    THEN LET i == CHOOSE k \in 1..Len(s) :
                      s[k] = sep /\ \A j \in 1..(k - 1) : s[j] # sep
         IN  <<SubSeq(s, 1, i - 1)>> \o split(SubSeq(s, i + 1, Len(s)), sep)
    ELSE <<s>>

(* ------------------------------ inputs -------------------------------- *)

\* what the user can type into the textarea: "", " ", " eggs ", "eggs, rice"
Texts == { <<>>, <<" ">>, <<" ", "eggs", " ">>, <<"eggs", ",", " ", "rice">> }

\* the files the user can pick
PngFile == [name |-> "fridge.png", type |-> "image/png", bytes |-> "abc"]
JpgFile == [name |-> "pantry.jpg", type |-> "image/jpeg", bytes |-> "xyz"]
Files == {PngFile, JpgFile}

\* base64 of the bytes of the files above
base64(bytes) == IF bytes = "abc" THEN "YWJj" ELSE "eHl6"

\* FileReader.readAsDataURL: "data:<type>;base64,<payload>"
readAsDataURL(file) ==
    <<"data:", file.type, ";base64", ",", base64(file.bytes)>>

\* response.text of a resolved generateContent call
Responses == {Str(<<"## Idea 1">>), Str(<<>>), Undefined}

(* ----------------------------- constants ------------------------------ *)

IngredientsPrefix == <<"Here are the ingredients I have: ">>
Instruction ==
    [text |-> <<"Based on these ingredients (and/or the image provided), suggest 3 creative and delicious dinner ideas. For each idea, provide a brief description and a simple recipe. Format the response in Markdown.">>]
ModelId == "gemini-3-flash-preview"
FallbackMessage == <<"No ideas generated. Please try again.">>
ErrorMessage == <<"An error occurred while generating ideas. Please try again.">>

(* ------------------------------- state -------------------------------- *)

VARIABLES
    ingredients,    \* useState(''): the textarea's text
    image,          \* useState<File | null>(null)
    imagePreview,   \* useState<string | null>(null)
    isLoading,      \* useState(false)
    result,         \* useState<string | null>(null)
    fileInputValue, \* fileInputRef.current.value: name of the selected file
    pickerOpen,     \* the file dialog opened by fileInputRef.current.click()
    readers,        \* FileReaders between readAsDataURL and onloadend
    calls,          \* generateContent requests awaiting their response
    accepted,       \* submissions that passed the guard of handleSubmit
    issued,         \* generateContent calls made
    submissionOf,   \* for each call in flight, the submission that made it
    resultOf,       \* the submission whose outcome setResult stored last
    lastEvent       \* the last event handled and the loading flag it met

vars == <<ingredients, image, imagePreview, isLoading, result, fileInputValue,
          pickerOpen, readers, calls, accepted, issued, submissionOf,
          resultOf, lastEvent>>

Event(op, arg) == [op |-> op, arg |-> arg, wasLoading |-> isLoading]

RemoveAt(s, i) == SubSeq(s, 1, i - 1) \o SubSeq(s, i + 1, Len(s))

Init ==
    /\ ingredients = <<>>
    /\ image = Null
    /\ imagePreview = Null
    /\ isLoading = FALSE
    /\ result = Null
    /\ fileInputValue = ""
    /\ pickerOpen = FALSE
    /\ readers = <<>>
    /\ calls = <<>>
    /\ accepted = 0
    /\ issued = 0
    /\ submissionOf = <<>>
    /\ resultOf = 0
    /\ lastEvent = [op |-> "mount", arg |-> Null, wasLoading |-> FALSE]

(* ------------------------------ textarea ------------------------------ *)

\* onChange={(e) => setIngredients(e.target.value)}
setIngredients(s) ==
    /\ ingredients' = s
    /\ lastEvent' = Event("setIngredients", Str(s))
    /\ UNCHANGED <<image, imagePreview, isLoading, result, fileInputValue,
                   pickerOpen, readers, calls, accepted, issued,
                   submissionOf, resultOf>>

(* ---------------------------- image input ----------------------------- *)

\* The upload area is rendered while !imagePreview; clicking it calls
\* fileInputRef.current?.click(), which opens the file dialog.
clickUpload ==
    /\ ~Truthy(imagePreview)
    /\ ~pickerOpen
    /\ pickerOpen' = TRUE
    /\ lastEvent' = Event("clickUpload", Null)
    /\ UNCHANGED <<ingredients, image, imagePreview, isLoading, result,
                   fileInputValue, readers, calls, accepted, issued,
                   submissionOf, resultOf>>

\* handleImageChange: the change event of the file input.  file is
\* e.target.files?.[0]: a File, or Undefined when the selection was emptied.
\* The input fires change only when its selection changes, so the file picked
\* differs from the one it holds (removeImage empties it to allow a re-pick).
\* setImagePreview is not called here: it waits for the reader's onloadend.
handleImageChange(file) ==
    /\ pickerOpen
    /\ pickerOpen' = FALSE
    /\ lastEvent' = Event("handleImageChange", file)
    /\ IF file # Undefined
       THEN /\ file.name # fileInputValue
            /\ Len(readers) < MaxReaders
            /\ fileInputValue' = file.name
            /\ image' = file
            /\ readers' = Append(readers, file)
       ELSE /\ fileInputValue # ""
            /\ fileInputValue' = ""
            /\ UNCHANGED <<image, readers>>
    /\ UNCHANGED <<ingredients, imagePreview, isLoading, result, calls,
                   accepted, issued, submissionOf, resultOf>>

\* reader.onloadend of the i-th pending FileReader: reader.result is the data
\* URL when the read succeeded and null when it failed.
onloadend(i, ok) ==
    /\ i \in 1..Len(readers)
    /\ LET readerResult == IF ok THEN Str(readAsDataURL(readers[i])) ELSE Null
       IN  /\ imagePreview' = readerResult
           /\ lastEvent' = Event(IF ok THEN "onload" ELSE "onerror", readers[i])
    /\ readers' = RemoveAt(readers, i)
    /\ UNCHANGED <<ingredients, image, isLoading, result, fileInputValue,
                   pickerOpen, calls, accepted, issued, submissionOf,
                   resultOf>>

\* the component's state as one record
State ==
    [ingredients |-> ingredients, image |-> image,
     imagePreview |-> imagePreview, isLoading |-> isLoading,
     result |-> result, fileInputValue |-> fileInputValue,
     pickerOpen |-> pickerOpen, readers |-> readers, calls |-> calls,
     accepted |-> accepted, issued |-> issued,
     submissionOf |-> submissionOf, resultOf |-> resultOf]

removeImageKeepsPreview(s) ==
    [s EXCEPT !.image = Null, !.fileInputValue = ""]

removeImageClearingResult(s) ==
    [s EXCEPT !.image = Null, !.imagePreview = Null, !.fileInputValue = "",
              !.result = Null]

\* removeImage as a function of the component's state
removeImage(s) ==
    [s EXCEPT !.image = Null, !.imagePreview = Null, !.fileInputValue = ""]

\* The remove button is rendered over the preview, while imagePreview is set.
clickRemove ==
    /\ Truthy(imagePreview)
    /\ LET s == removeImage(State)
       IN  /\ ingredients' = s.ingredients
           /\ image' = s.image
           /\ imagePreview' = s.imagePreview
           /\ isLoading' = s.isLoading
           /\ result' = s.result
           /\ fileInputValue' = s.fileInputValue
           /\ pickerOpen' = s.pickerOpen
           /\ readers' = s.readers
           /\ calls' = s.calls
           /\ accepted' = s.accepted
           /\ issued' = s.issued
           /\ submissionOf' = s.submissionOf
           /\ resultOf' = s.resultOf
    /\ lastEvent' = Event("removeImage", Null)

(* ------------------------------- submit ------------------------------- *)

emptyWithoutTrim(ing, img) == ing = <<>> /\ img = Null

\* !ingredients.trim() && !image
empty(ing, img) == trim(ing) = <<>> /\ img = Null

disabledIgnoringLoading == trim(ingredients) = <<>> /\ image = Null

\* the disabled attribute of the submit button
disabled == isLoading \/ empty(ingredients, image)

partsTrustingPreview(ing, img, preview) ==
    LET textPart ==
            IF trim(ing) # <<>>
            THEN <<[text |-> IngredientsPrefix \o ing]>>
            ELSE <<>>
        pieces == IF preview.tag = "string"
                  THEN split(preview.chars, ",")
                  ELSE <<>>
        base64Data == IF Len(pieces) >= 2 THEN Str(pieces[2]) ELSE Undefined
        imagePart ==
            IF Truthy(base64Data)
            THEN <<[inlineData |->
                      [data |-> base64Data.chars,
                       mimeType |-> IF img # Null THEN img.type ELSE ""]]>>
            ELSE <<>>
    IN  textPart \o imagePart \o <<Instruction>>

partsTrimmed(ing, img, preview) ==
    LET textPart ==
            IF trim(ing) # <<>>
            THEN <<[text |-> IngredientsPrefix \o trim(ing)]>>
            ELSE <<>>
        pieces == IF preview.tag = "string"
                  THEN split(preview.chars, ",")
                  ELSE <<>>
        base64Data == IF Len(pieces) >= 2 THEN Str(pieces[2]) ELSE Undefined
        imagePart ==
            IF img # Null /\ Truthy(base64Data)
            THEN <<[inlineData |->
                      [data |-> base64Data.chars, mimeType |-> img.type]]>>
            ELSE <<>>
    IN  textPart \o imagePart \o <<Instruction>>

\* the parts handleSubmit builds from the state it closes over
parts(ing, img, preview) ==
    LET textPart ==
            IF trim(ing) # <<>>
            THEN <<[text |-> IngredientsPrefix \o ing]>>
            ELSE <<>>
        pieces == IF preview.tag = "string"
                  THEN split(preview.chars, ",")
                  ELSE <<>>
        base64Data == IF Len(pieces) >= 2 THEN Str(pieces[2]) ELSE Undefined
        imagePart ==
            IF img # Null /\ Truthy(base64Data)
            THEN <<[inlineData |->
                      [data |-> base64Data.chars, mimeType |-> img.type]]>>
            ELSE <<>>
    IN  textPart \o imagePart \o <<Instruction>>

handleSubmitKeepingResult ==
    IF empty(ingredients, image)
    THEN UNCHANGED <<isLoading, result, calls, accepted, issued, submissionOf>>
    ELSE /\ accepted < MaxSubmits
         /\ accepted' = accepted + 1
         /\ isLoading' = TRUE
         /\ calls' = Append(calls,
                [model |-> ModelId,
                 contents |-> [parts |-> parts(ingredients, image, imagePreview)]])
         /\ issued' = issued + 1
         /\ submissionOf' = Append(submissionOf, accepted + 1)
         /\ UNCHANGED result

\* handleSubmit up to its await: the guard, the two setters, the request
handleSubmit ==
    IF empty(ingredients, image)
    THEN UNCHANGED <<isLoading, result, calls, accepted, issued, submissionOf>>
    ELSE /\ accepted < MaxSubmits
         /\ accepted' = accepted + 1
         /\ isLoading' = TRUE
         /\ result' = Null
         /\ calls' = Append(calls,
                [model |-> ModelId,
                 contents |-> [parts |-> parts(ingredients, image, imagePreview)]])
         /\ issued' = issued + 1
         /\ submissionOf' = Append(submissionOf, accepted + 1)

\* A click on the submit button, the form's only submitter: a disabled
\* button dispatches no submit event, an enabled one runs the form's
\* onSubmit={handleSubmit}.  handleSubmit runs to its await within the event,
\* and React renders the new disabled attribute before the next event.
clickSubmit ==
    /\ lastEvent' = Event("submit", Null)
    /\ IF disabled
       THEN UNCHANGED <<isLoading, result, calls, accepted, issued,
                        submissionOf>>
       ELSE handleSubmit
    /\ UNCHANGED <<ingredients, image, imagePreview, fileInputValue,
                   pickerOpen, readers, resultOf>>

resultTextWithoutFallback(text) == text

\* response.text || 'No ideas generated. Please try again.'
resultText(text) == IF Truthy(text) THEN text ELSE Str(FallbackMessage)

\* the i-th pending call resolves: the rest of the try block, then finally
resolve(i, text) ==
    /\ i \in 1..Len(calls)
    /\ calls' = RemoveAt(calls, i)
    /\ submissionOf' = RemoveAt(submissionOf, i)
    /\ resultOf' = submissionOf[i]
    /\ result' = resultText(text)
    /\ isLoading' = FALSE
    /\ lastEvent' = Event("resolved", text)
    /\ UNCHANGED <<ingredients, image, imagePreview, fileInputValue,
                   pickerOpen, readers, accepted, issued>>

rejectWithoutFinally(i) ==
    /\ i \in 1..Len(calls)
    /\ calls' = RemoveAt(calls, i)
    /\ submissionOf' = RemoveAt(submissionOf, i)
    /\ resultOf' = submissionOf[i]
    /\ result' = Str(ErrorMessage)
    /\ lastEvent' = Event("rejected", Null)
    /\ UNCHANGED <<ingredients, image, imagePreview, isLoading,
                   fileInputValue, pickerOpen, readers, accepted, issued>>

rejectRetrying(i) ==
    /\ i \in 1..Len(calls)
    /\ issued' = issued + 1
    /\ lastEvent' = Event("rejected", Null)
    /\ UNCHANGED <<ingredients, image, imagePreview, isLoading, result,
                   fileInputValue, pickerOpen, readers, calls, accepted,
                   submissionOf, resultOf>>

\* the i-th pending call rejects: the catch block, then finally
reject(i) ==
    /\ i \in 1..Len(calls)
    /\ calls' = RemoveAt(calls, i)
    /\ submissionOf' = RemoveAt(submissionOf, i)
    /\ resultOf' = submissionOf[i]
    /\ result' = Str(ErrorMessage)
    /\ isLoading' = FALSE
    /\ lastEvent' = Event("rejected", Null)
    /\ UNCHANGED <<ingredients, image, imagePreview, fileInputValue,
                   pickerOpen, readers, accepted, issued>>

(* --------------------------- specification ---------------------------- *)

Next ==
    \/ \E s \in Texts : setIngredients(s)
    \/ clickUpload
    \/ \E file \in Files \cup {Undefined} : handleImageChange(file)
    \/ \E i \in 1..MaxReaders, ok \in BOOLEAN : onloadend(i, ok)
    \/ clickRemove
    \/ clickSubmit
    \/ \E i \in 1..MaxSubmits, text \in Responses : resolve(i, text)
    \/ \E i \in 1..MaxSubmits : reject(i)

Spec == Init /\ [][Next]_vars

\* a call in flight settles: its promise resolves or rejects
settle ==
    \E i \in 1..MaxSubmits :
        \/ \E text \in Responses : resolve(i, text)
        \/ reject(i)

\* the endpoint answers every call: a call in flight is settled in the end
FairSpec == Spec /\ WF_vars(settle)

(* ------------------------------ properties ---------------------------- *)

\* the request of the submission accepted last
lastRequestParts == calls[Len(calls)].contents.parts

isTextPart(part) == DOMAIN part = {"text"}

\* the last event was a click on submit that handleSubmit accepted
submitAccepted ==
    /\ lastEvent.op = "submit"
    /\ ~lastEvent.wasLoading
    /\ ~(trim(ingredients) = <<>> /\ image = Null)

\* C1: a click on submit while the component is loading changes neither the
\* loading flag nor the result, leaves the request in flight as it is and
\* makes no second generateContent call.
C1_SubmitWhileLoadingIsNoOp ==
    [][(isLoading /\ lastEvent'.op = "submit")
         => UNCHANGED <<isLoading, result, calls, issued, accepted>>]_vars

C1_Witness ==
    /\ lastEvent.op = "submit"
    /\ lastEvent.wasLoading
    /\ ~(trim(ingredients) = <<>> /\ image = Null)
    /\ Len(calls) = 1

\* C2: at most one generateContent call is in flight in every reachable
\* state, and one is in flight exactly while the component is loading.
C2_AtMostOneInFlight ==
    /\ Len(calls) <= 1
    /\ isLoading <=> Len(calls) = 1

C2_Witness ==
    /\ Len(calls) = 1
    /\ accepted >= 2
    /\ lastEvent.op \in {"onload", "removeImage", "setIngredients"}

\* C3: a submission accepted while an image is attached sends that image as
\* one inlineData part right before the instruction: [image, instruction]
\* for blank text, [user text, image, instruction] otherwise.
C3_ImagePartSent ==
    (submitAccepted /\ image # Null) =>
        LET imagePart == [inlineData |-> [data |-> <<base64(image.bytes)>>,
                                          mimeType |-> image.type]]
            p == lastRequestParts
        IN  IF trim(ingredients) = <<>>
            THEN p = <<imagePart, Instruction>>
            ELSE /\ Len(p) = 3
                 /\ isTextPart(p[1])
                 /\ p[2] = imagePart
                 /\ p[3] = Instruction

\* C4: a submission accepted with non-blank text and no image attached sends
\* exactly two parts, the user text and then the instruction, whatever the
\* image input did before.
C4_TextOnlyParts ==
    (submitAccepted /\ trim(ingredients) # <<>> /\ image = Null) =>
        /\ Len(lastRequestParts) = 2
        /\ lastRequestParts[1] = [text |-> IngredientsPrefix \o ingredients]
        /\ lastRequestParts[2] = Instruction

C4_Witness ==
    /\ submitAccepted
    /\ trim(ingredients) # <<>>
    /\ image = Null
    /\ Truthy(imagePreview)

\* C5: with the text blank after trimming and no image attached, a click on
\* submit changes nothing: no request is built and no call is made.
C5_EmptySubmitIsNoOp ==
    [][(lastEvent'.op = "submit" /\ trim(ingredients) = <<>> /\ image = Null)
         => UNCHANGED <<ingredients, image, imagePreview, isLoading, result,
                        fileInputValue, readers, calls, accepted, issued>>]_vars

C5_Witness ==
    /\ lastEvent.op = "submit"
    /\ ~lastEvent.wasLoading
    /\ ingredients = <<" ">>
    /\ image = Null

\* C6: when the call of a submission fails the component leaves loading and
\* shows the fixed error message; no call stays behind.
C6_FailureShowsErrorMessage ==
    lastEvent.op = "rejected" =>
        /\ ~isLoading
        /\ result = Str(ErrorMessage)
        /\ calls = <<>>

C6_Witness == lastEvent.op = "rejected" /\ lastEvent.wasLoading

\* C7: when the call resolves with empty or undefined text the component
\* leaves loading and shows the fallback message, which is not the error
\* message and is not empty.
C7_EmptyResponseShowsFallback ==
    (lastEvent.op = "resolved" /\ lastEvent.arg \in {Undefined, Str(<<>>)}) =>
        /\ ~isLoading
        /\ result = Str(FallbackMessage)
        /\ result # Str(ErrorMessage)
        /\ Truthy(result)

C7_Witness == lastEvent.op = "resolved" /\ lastEvent.arg = Undefined

\* C8: after the read of a newly attached file failed, the component does
\* not hold that file as its image without a preview.
C8_FailedReadLeavesNoImage ==
    lastEvent.op = "onerror" =>
        ~(image = lastEvent.arg /\ imagePreview = Null)

\* C9: calls and accepted submissions are counted together: a step makes a
\* call only by accepting a click on submit, and then exactly one; a failed
\* call is followed by no call of its own.
C9_OneCallPerSubmission ==
    [][/\ issued = accepted
       /\ issued' = accepted'
       /\ issued' # issued =>
            (lastEvent'.op = "submit" /\ issued' = issued + 1)]_vars

C9_Witness ==
    /\ lastEvent.op = "rejected"
    /\ issued = 2
    /\ accepted = 2
    /\ calls = <<>>

\* C10: removeImage is idempotent on every reachable state, a second call
\* right after the first changes nothing, and there is neither image nor
\* preview after it.
C10_RemoveImageIdempotent ==
    /\ LET once == removeImage(State)
       IN  /\ removeImage(once) = once
           /\ once.image = Null
           /\ once.imagePreview = Null
    /\ lastEvent.op = "removeImage" =>
           /\ removeImage(State) = State
           /\ image = Null
           /\ imagePreview = Null

C10_Witness == lastEvent.op = "removeImage" /\ readers # <<>>

\* C11: a preview is held only while an image is attached, and it is the
\* data URL of that image.
C11_PreviewBelongsToImage ==
    Truthy(imagePreview) =>
        /\ image # Null
        /\ imagePreview = Str(readAsDataURL(image))

isInlineData(part) == DOMAIN part = {"inlineData"}

\* C12: every inlineData part of an accepted submission carries the MIME
\* type and the payload of the image attached when submit was clicked.
C12_InlineDataOfOneImage ==
    submitAccepted =>
        \A k \in 1..Len(lastRequestParts) :
            isInlineData(lastRequestParts[k]) =>
                /\ image # Null
                /\ lastRequestParts[k].inlineData.mimeType = image.type
                /\ lastRequestParts[k].inlineData.data
                       = <<base64(image.bytes)>>

\* C13: an accepted click on submit puts the component into loading with the
\* result cleared, and no result is held in any state that is loading.
C13_LoadingHoldsNoResult ==
    /\ isLoading => result = Null
    /\ submitAccepted => isLoading

C13_Witness ==
    /\ submitAccepted
    /\ accepted >= 2
    /\ isLoading
    /\ result = Null

\* C16: the textarea, the image input, its reader callbacks and removeImage
\* change neither the loading flag, nor the result, nor the requests in
\* flight; submit and the completion of a call change neither the text, nor
\* the image, nor the preview.
C16_Frames ==
    [][/\ lastEvent'.op \in {"setIngredients", "clickUpload",
                             "handleImageChange", "onload", "onerror",
                             "removeImage"}
            => UNCHANGED <<isLoading, result, calls>>
       /\ lastEvent'.op \in {"submit", "resolved", "rejected"}
            => UNCHANGED <<ingredients, image, imagePreview>>]_vars

C16_Witness ==
    /\ lastEvent.op = "removeImage"
    /\ lastEvent.wasLoading
    /\ Len(calls) = 1
    /\ Len(lastRequestParts) = 3

\* C17 as claimed: the user-text part is the fixed phrase followed by the
\* text with its leading and trailing whitespace removed.
C17_TextPartTrimmed ==
    (submitAccepted /\ trim(ingredients) # <<>>) =>
        lastRequestParts[1] = [text |-> IngredientsPrefix \o trim(ingredients)]

\* C17 as amended: the user-text part is the fixed phrase followed by the
\* text as it was typed, leading and trailing whitespace included.
C17_TextPartAsTyped ==
    (submitAccepted /\ trim(ingredients) # <<>>) =>
        lastRequestParts[1] = [text |-> IngredientsPrefix \o ingredients]

C17_Witness ==
    /\ submitAccepted
    /\ ingredients = <<" ", "eggs", " ">>
    /\ image # Null

\* C15: whenever no call is in flight and a result is held, it is the
\* outcome of the submission accepted last, and the outcome of an earlier
\* submission never replaces that of a later one.
C15_ResultOfLastSubmission ==
    [][/\ (~isLoading' /\ calls' = <<>> /\ result' # Null)
            => resultOf' = accepted'
       /\ resultOf' >= resultOf]_vars

C15_Witness ==
    /\ ~isLoading
    /\ calls = <<>>
    /\ Truthy(result)
    /\ accepted = 2
    /\ resultOf = 2

\* C14: when the endpoint answers every call, a component that is loading
\* comes to rest: not loading, no call in flight, a non-empty result shown.
C14_LoadingEnds ==
    isLoading ~> (~isLoading /\ calls = <<>> /\ Truthy(result))

C14_Witness ==
    /\ lastEvent.op \in {"resolved", "rejected"}
    /\ lastEvent.wasLoading
    /\ ~isLoading
    /\ calls = <<>>
    /\ Truthy(result)

====
